---- MODULE Spec2Model ----
(***************************************************************************)
(* State-machine model of tools/list-settings.py: the command-line run of  *)
(* main(), the API client (SnipeITClient) and the nine listers and the     *)
(* export of SnipeITSettingsLister.                                        *)
(*                                                                         *)
(* Strings that the code inspects character by character (the --server     *)
(* value) are sequences of one-character strings.  A server response is a  *)
(* record: a network exception, or an HTTP status with a body that either  *)
(* decodes as JSON or does not.  A decoded JSON object is a record with    *)
(* its set of keys and its "rows" sequence; a row carries the nested       *)
(* objects from which the listers derive a name column.                    *)
(***************************************************************************)
EXTENDS Integers, Sequences, FiniteSets, TLC

VARIABLES
    args,         \* argparse namespace of this run
    srv,          \* what the remote server may answer in this run
    pc,           \* position of main()
    client,       \* SnipeITClient, or NoClient before construction
    probe,        \* outcome of the connectivity probe, or NoProbe
    requests,     \* HTTP GETs issued so far, in order
    listed,       \* listing operations invoked so far, in order
    last,         \* console output and table of the most recent operation
    firstFailed,  \* first resource kind whose listing fetch failed, or "none"
    config,       \* export_config: values fetched so far, in key order
    file,         \* the export file
    exit_code     \* process exit code, NoExit while running

vars == <<args, srv, pc, client, probe, requests, listed, last, firstFailed,
          config, file, exit_code>>

----------------------------------------------------------------------------
(* Bounds of the model *)

\* largest number of rows in a response of the row-level specification
MaxRows == 22
\* largest number of rows in a response of the whole-run specification
MainRows == 1
\* largest number of selection flags (--all, the nine resource flags,
\* --api-endpoints) given together on the command line
MaxFlags == 2

\* longest address or url value of the text specification
MaxLen == 32

(* Program constants *)

ModelsCap == 20
ListCap == 15
\* the length above which an address or a url is cut
TruncLen == 30

----------------------------------------------------------------------------
(* Small helpers *)

Min(a, b) == IF a < b THEN a ELSE b

Range(s) == {s[i] : i \in 1..Len(s)}

\* str.startswith(tuple of prefixes)
startswith(s, prefixes) ==
    \E p \in prefixes : Len(s) >= Len(p) /\ SubSeq(s, 1, Len(p)) = p

RECURSIVE rstrip(_, _)
\* str.rstrip(ch)
rstrip(s, ch) ==
    IF s # <<>> /\ s[Len(s)] = ch THEN rstrip(SubSeq(s, 1, Len(s) - 1), ch) ELSE s

HttpPrefix == <<"h", "t", "t", "p", ":", "/", "/">>
HttpsPrefix == <<"h", "t", "t", "p", "s", ":", "/", "/">>

----------------------------------------------------------------------------
(* Resource kinds, in the order main() lists them and export_config fetches *)

Kinds == <<"categories", "models", "fields", "statuslabels", "companies",
           "locations", "departments", "suppliers", "manufacturers">>

KindSet == Range(Kinds)

\* the steps of main() after the probe, in order
Steps == Kinds \o <<"api_endpoints", "export", "finish">>

IndexOf(seq, x) == CHOOSE i \in 1..Len(seq) : seq[i] = x

\* the nested objects a lister reads a name from
NestedFields(kind) ==
    CASE kind = "models" -> {"category", "manufacturer"}
      [] kind = "locations" -> {"parent"}
      [] kind = "departments" -> {"company", "manager"}
      [] OTHER -> {}

\* the string members a lister shortens for display
TextFields(kind) ==
    CASE kind = "locations" -> {"address"}
      [] kind = "manufacturers" -> {"url"}
      [] OTHER -> {}

----------------------------------------------------------------------------
(* JSON values and server responses *)

\* Python values that travel as JSON: None, a dict (its keys, its "rows" value)
\* and a str (its characters)
None == [type |-> "None", keys |-> {}, rows |-> <<>>, chars |-> <<>>]

Dict(keys, rows) == [type |-> "dict", keys |-> keys, rows |-> rows, chars |-> <<>>]

Str(chars) == [type |-> "str", keys |-> {}, rows |-> <<>>, chars |-> chars]

\* bool(value) for the values above
Truthy(v) ==
    CASE v.type = "None" -> FALSE
      [] v.type = "dict" -> v.keys # {}
      [] OTHER -> v.chars # <<>>

\* a nested field of a row: the key is absent, its value is null, or it is an
\* object with a name
NestedVals == {"absent", "null", "named"}

\* a string member of a row: the key is absent, its value is null, or it is a
\* string (its characters)
NoText == [state |-> "absent", chars |-> <<>>]

NullText == [state |-> "null", chars |-> <<>>]

Text(chars) == [state |-> "str", chars |-> chars]

StdText == Text(<<"a">>)

\* the strings of n characters "a", with a "b" at position j (j = 0: none)
Marked(n, j) == [i \in 1..n |-> IF i = j THEN "b" ELSE "a"]

\* every address or url value of up to maxLen characters
TextValues(maxLen) ==
    {NoText, NullText} \cup {Text(Marked(n, j)) : n \in 0..maxLen, j \in 0..maxLen}

StdRow(kind) ==
    [f \in NestedFields(kind) \cup TextFields(kind) |->
        IF f \in NestedFields(kind) THEN "named" ELSE StdText]

\* the rows the server may send for a kind: the nested objects and the texts
\* of this run
RowValues(kind, s) ==
    {[f \in NestedFields(kind) \cup TextFields(kind) |->
         IF f \in NestedFields(kind) THEN nv[f] ELSE tv[f]] :
        nv \in [NestedFields(kind) -> s.nested], tv \in [TextFields(kind) -> s.texts]}

\* n rows, all with named nested objects except row i (i = 0: none)
Rows(n, i, row, kind) == [k \in 1..n |-> IF k = i THEN row ELSE StdRow(kind)]

RowSeqs(kind, s) ==
    {Rows(n, i, row, kind) :
        n \in 0..s.maxRows, i \in 0..s.maxRows, row \in RowValues(kind, s)}

NetworkError == [exc |-> TRUE, status |-> 0, decodes |-> FALSE, json |-> None]

Http(status, decodes, json) ==
    [exc |-> FALSE, status |-> status, decodes |-> decodes, json |-> json]

Bodies(kind, s) ==
    (IF "undecodable" \in s.bodies THEN {Http(200, FALSE, None)} ELSE {})
    \cup (IF "empty" \in s.bodies THEN {Http(200, TRUE, Dict({}, <<>>))} ELSE {})
    \cup (IF "norows" \in s.bodies THEN {Http(200, TRUE, Dict({"total"}, <<>>))} ELSE {})
    \cup (IF "rows" \in s.bodies
          THEN {Http(200, TRUE, Dict({"total", "rows"}, r)) : r \in RowSeqs(kind, s)}
          ELSE {})

\* every answer the server may give to GET /api/v1/<kind>
Responses(kind, s) ==
    (IF s.exc THEN {NetworkError} ELSE {})
    \cup {Http(st, FALSE, None) : st \in s.statuses \ {200}}
    \cup (IF 200 \in s.statuses THEN Bodies(kind, s) ELSE {})

----------------------------------------------------------------------------
(* Console output: one record per console.print *)

Msg(m) == [msg |-> m, n |-> 0]

MsgN(m, n) == [msg |-> m, n |-> n]

----------------------------------------------------------------------------
(* SnipeITClient *)

NoClient == [constructed |-> FALSE, server_url |-> <<>>]

SnipeITClient(server_url) ==
    [constructed |-> TRUE, server_url |-> rstrip(server_url, "/")]

\* test_connection with the status check lost: any HTTP answer counts as success
test_connection_any_status(resp) ==
    IF resp.exc
    THEN [ok |-> FALSE, printed |-> <<Msg("connection_error")>>]
    ELSE [ok |-> TRUE, printed |-> <<>>]

\* SnipeITClient.test_connection: the value returned and what is printed
client_test_connection(resp) ==
    IF resp.exc
    THEN [ok |-> FALSE, printed |-> <<Msg("connection_error")>>]
    ELSE IF resp.status = 200
         THEN [ok |-> TRUE, printed |-> <<>>]
         ELSE [ok |-> FALSE, printed |-> <<MsgN("connection_error", resp.status)>>]

\* get_api_data without its except clause: a network exception leaves the method
get_api_data_uncaught(endpoint, resp) ==
    IF resp.exc
    THEN [data |-> None, printed |-> <<>>, raised |-> TRUE]
    ELSE IF resp.status = 200 /\ resp.decodes
         THEN [data |-> resp.json, printed |-> <<>>, raised |-> FALSE]
         ELSE [data |-> None, printed |-> <<MsgN("api_error", resp.status)>>,
               raised |-> FALSE]

\* SnipeITClient.get_api_data: the value returned, what is printed, and
\* whether an exception leaves the method.  response.json() on a body that
\* does not decode raises requests.exceptions.JSONDecodeError, a
\* RequestException, which the except clause catches.
get_api_data(endpoint, resp) ==
    IF resp.exc
    THEN [data |-> None, printed |-> <<Msg("request_error")>>, raised |-> FALSE]
    ELSE IF resp.status = 200
         THEN IF resp.decodes
              THEN [data |-> resp.json, printed |-> <<>>, raised |-> FALSE]
              ELSE [data |-> None, printed |-> <<Msg("request_error")>>,
                    raised |-> FALSE]
    ELSE IF resp.status = 404
         THEN [data |-> None, printed |-> <<Msg("not_found_404")>>, raised |-> FALSE]
    ELSE IF resp.status = 401
         THEN [data |-> None, printed |-> <<Msg("authentication_401")>>,
               raised |-> FALSE]
    ELSE IF resp.status = 403
         THEN [data |-> None, printed |-> <<Msg("access_denied_403")>>,
               raised |-> FALSE]
    ELSE [data |-> None, printed |-> <<MsgN("api_error", resp.status)>>,
          raised |-> FALSE]

----------------------------------------------------------------------------
(* SnipeITSettingsLister: the row loops *)

\* data.get('rows', [])
get_rows(data) == IF "rows" \in data.keys THEN data.rows ELSE <<>>

\* row.get(f, {}).get('name', ''): raises AttributeError when the value is null
chained_name(v) ==
    [raised |-> v = "null", value |-> IF v = "named" THEN "N" ELSE ""]

\* x = row.get(f, {}); x.get('name', '') if x else ''
guarded_name(v) ==
    [raised |-> FALSE, value |-> IF v = "named" THEN "N" ELSE ""]

\* the derived name of nested field f of a row, as that kind's loop computes it
derived_name(kind, v) ==
    IF kind = "models" THEN chained_name(v) ELSE guarded_name(v)

\* the ellipsis marker
Ellipsis == <<".", ".", ".">>

\* address_display / url_display with the comparison off by one
text_display_from_30(v) ==
    LET text == IF v.state = "str" THEN v.chars ELSE <<>>
    IN  IF Len(text) >= TruncLen
        THEN SubSeq(text, 1, Min(Len(text), TruncLen)) \o Ellipsis
        ELSE text

\* address = location.get('address', ''); if address is None: address = '';
\* address_display = address[:30] + "..." if len(address) > 30 else address
text_display(v) ==
    LET text == IF v.state = "str" THEN v.chars ELSE <<>>
    IN  IF Len(text) > TruncLen
        THEN SubSeq(text, 1, Min(Len(text), TruncLen)) \o Ellipsis
        ELSE text

\* one iteration of the loop: the derived-name and shortened-text cells
\* handed to table.add_row
add_row(kind, row) ==
    [raised |-> \E f \in NestedFields(kind) : derived_name(kind, row[f]).raised,
     cells |-> [f \in NestedFields(kind) \cup TextFields(kind) |->
                   IF f \in NestedFields(kind)
                   THEN derived_name(kind, row[f]).value
                   ELSE text_display(row[f])]]

\* the for loop over the shown rows: the rows added to the table, and whether
\* an iteration raised (the loop stops at the first one that does)
add_rows(kind, shown) ==
    LET bad == {k \in 1..Len(shown) : add_row(kind, shown[k]).raised}
        stop == IF bad = {} THEN Len(shown)
                ELSE (CHOOSE k \in bad : \A j \in bad : k <= j) - 1
    IN  [raised |-> bad # {},
         table |-> [k \in 1..stop |-> add_row(kind, shown[k]).cells]]

\* the body shared by the nine listers: header, fetch, then either the
\* "unable" notice (if not data) or the loop, the overflow notice and the
\* table.  An exception in the loop leaves the lister before anything more
\* is printed.
list_resource(kind, unable, capped, cap, resp) ==
    LET g == get_api_data(kind, resp)
        rows == get_rows(g.data)
        shown == IF capped THEN SubSeq(rows, 1, Min(Len(rows), cap)) ELSE rows
        loop == add_rows(kind, shown)
        notice == IF capped /\ Len(rows) > cap
                  THEN <<MsgN("and_n_other", Len(rows) - cap)>> ELSE <<>>
        head == <<Msg("header")>> \o g.printed
    IN  IF g.raised
        THEN [kind |-> kind, resp |-> resp, got |-> g, printed |-> head,
              rendered |-> FALSE, table |-> <<>>, raised |-> TRUE]
        ELSE IF ~Truthy(g.data)
        THEN [kind |-> kind, resp |-> resp, got |-> g, printed |-> head \o unable,
              rendered |-> FALSE, table |-> <<>>, raised |-> FALSE]
        ELSE IF loop.raised
        THEN [kind |-> kind, resp |-> resp, got |-> g, printed |-> head,
              rendered |-> FALSE, table |-> loop.table, raised |-> TRUE]
        ELSE [kind |-> kind, resp |-> resp, got |-> g,
              printed |-> head \o notice \o <<Msg("table")>>,
              rendered |-> TRUE, table |-> loop.table, raised |-> FALSE]

list_asset_types(resp) ==
    list_resource("categories", <<Msg("unable_to_retrieve")>>, FALSE, 0, resp)

list_models(resp) ==
    list_resource("models", <<Msg("unable_to_retrieve")>>, TRUE, ModelsCap, resp)

list_custom_fields(resp) ==
    list_resource("fields", <<Msg("no_custom_fields"), Msg("note_custom_fields")>>,
                  FALSE, 0, resp)

list_status_labels(resp) ==
    list_resource("statuslabels", <<Msg("unable_to_retrieve")>>, FALSE, 0, resp)

list_companies(resp) ==
    list_resource("companies", <<Msg("unable_to_retrieve")>>, TRUE, ListCap, resp)

list_locations(resp) ==
    list_resource("locations", <<Msg("unable_to_retrieve")>>, TRUE, ListCap, resp)

list_departments(resp) ==
    list_resource("departments", <<Msg("unable_to_retrieve")>>, TRUE, ListCap, resp)

list_suppliers(resp) ==
    list_resource("suppliers", <<Msg("unable_to_retrieve")>>, TRUE, ListCap, resp)

list_manufacturers(resp) ==
    list_resource("manufacturers", <<Msg("unable_to_retrieve")>>, TRUE, ListCap, resp)

\* an operation that issues no request
NoResponse == [exc |-> FALSE, status |-> 0, decodes |-> FALSE, json |-> None]

NoFetch == [data |-> None, printed |-> <<>>, raised |-> FALSE]

\* an operation that only prints
Printed(kind, printed) ==
    [kind |-> kind, resp |-> NoResponse, got |-> NoFetch, printed |-> printed,
     rendered |-> FALSE, table |-> <<>>, raised |-> FALSE]

\* the number of rows of the hardcoded endpoint table
EndpointCount == 15

\* show_api_endpoints: no request, one table of EndpointCount rows
show_api_endpoints ==
    [kind |-> "api_endpoints", resp |-> NoResponse, got |-> NoFetch,
     printed |-> <<Msg("header"), Msg("table")>>,
     rendered |-> TRUE, table |-> [k \in 1..EndpointCount |-> <<>>], raised |-> FALSE]

\* the lister main() calls at a step
lister(kind, resp) ==
    CASE kind = "categories" -> list_asset_types(resp)
      [] kind = "models" -> list_models(resp)
      [] kind = "fields" -> list_custom_fields(resp)
      [] kind = "statuslabels" -> list_status_labels(resp)
      [] kind = "companies" -> list_companies(resp)
      [] kind = "locations" -> list_locations(resp)
      [] kind = "departments" -> list_departments(resp)
      [] kind = "suppliers" -> list_suppliers(resp)
      [] kind = "manufacturers" -> list_manufacturers(resp)

----------------------------------------------------------------------------
(* export_config *)

ConfigKeys == <<"server_url", "timestamp">> \o Kinds

\* the config dict with the kinds whose fetch failed left out
build_config_successes(cl, fetched) ==
    [k \in {"server_url", "timestamp"}
            \cup {Kinds[i] : i \in {j \in 1..Len(Kinds) : fetched[j] # None}} |->
        CASE k = "server_url" -> Str(cl.server_url)
          [] k = "timestamp" -> None
          [] OTHER -> fetched[IndexOf(Kinds, k)]]

\* the config dict, from the values fetched in key order
build_config(cl, fetched) ==
    [k \in Range(ConfigKeys) |->
        CASE k = "server_url" -> Str(cl.server_url)
          [] k = "timestamp" -> None
          [] OTHER -> fetched[IndexOf(Kinds, k)]]

\* json.dump of one value: None is written as null, a dict as an object with
\* the same members, a str as a string
json_dump_value(v) ==
    CASE v.type = "None" -> [type |-> "null", keys |-> {}, rows |-> <<>>, chars |-> <<>>]
      [] v.type = "dict" -> [type |-> "object", keys |-> v.keys, rows |-> v.rows,
                             chars |-> <<>>]
      [] OTHER -> [type |-> "string", keys |-> {}, rows |-> <<>>, chars |-> v.chars]

\* json.dump(config, f): one member per key of the dict
json_dump(cfg) == [k \in DOMAIN cfg |-> json_dump_value(cfg[k])]

NoFile == [state |-> "absent", content |-> <<>>]

----------------------------------------------------------------------------
(* main(): the command line *)

\* the arguments of a run; token and export_file do not influence control flow
Namespace(server, all, flags, api_endpoints, export) ==
    [server |-> server, all |-> all,
     categories |-> "categories" \in flags, models |-> "models" \in flags,
     custom_fields |-> "fields" \in flags, status_labels |-> "statuslabels" \in flags,
     companies |-> "companies" \in flags, locations |-> "locations" \in flags,
     departments |-> "departments" \in flags, suppliers |-> "suppliers" \in flags,
     manufacturers |-> "manufacturers" \in flags,
     api_endpoints |-> api_endpoints, export |-> export]

\* the flag that selects a step's listing
flag(a, step) ==
    CASE step = "categories" -> a.categories
      [] step = "models" -> a.models
      [] step = "fields" -> a.custom_fields
      [] step = "statuslabels" -> a.status_labels
      [] step = "companies" -> a.companies
      [] step = "locations" -> a.locations
      [] step = "departments" -> a.departments
      [] step = "suppliers" -> a.suppliers
      [] step = "manufacturers" -> a.manufacturers
      [] step = "api_endpoints" -> a.api_endpoints

show_all(a) ==
    a.all \/ ~(a.categories \/ a.models \/ a.custom_fields \/ a.status_labels
               \/ a.companies \/ a.locations \/ a.departments \/ a.suppliers
               \/ a.manufacturers \/ a.api_endpoints)

\* the condition of a step's if statement
selected(a, step) ==
    IF step = "export" THEN a.export ELSE show_all(a) \/ flag(a, step)

\* the URL check with the "://" of the prefixes lost
valid_url_scheme_only(server) ==
    startswith(server, {<<"h", "t", "t", "p">>, <<"h", "t", "t", "p", "s">>})

\* args.server.startswith(('http://', 'https://'))
valid_url(server) == startswith(server, {HttpPrefix, HttpsPrefix})

NextStep(step) == Steps[IndexOf(Steps, step) + 1]

NoProbe == [issued |-> FALSE, exc |-> FALSE, status |-> 0]

NoExit == -1

----------------------------------------------------------------------------
(* main(): the steps *)

Get(by, endpoint) == [by |-> by, endpoint |-> endpoint]

\* lines 564-574: validate the URL, then construct the client and the lister
\* and display the server banner
ValidateUrl ==
    /\ pc = "start"
    /\ IF ~valid_url(args.server)
       THEN /\ last' = Printed("main", <<Msg("url_must_start_with_http")>>)
            /\ exit_code' = 1
            /\ pc' = "exited"
            /\ UNCHANGED client
       ELSE /\ client' = SnipeITClient(args.server)
            /\ last' = Printed("display_server_info", <<Msg("panel")>>)
            /\ pc' = "test_connection"
            /\ UNCHANGED exit_code
    /\ UNCHANGED <<args, srv, probe, requests, listed, firstFailed, config, file>>

\* lines 576-578 with SnipeITSettingsLister.test_connection: the probe, and
\* sys.exit(1) when it fails
TestConnection ==
    /\ pc = "test_connection"
    /\ \E resp \in {NetworkError} \cup {Http(st, FALSE, None) : st \in srv.statuses} :
         LET t == client_test_connection(resp)
         IN  /\ requests' = Append(requests, Get("test_connection", "statuslabels"))
             /\ probe' = [issued |-> TRUE, exc |-> resp.exc, status |-> resp.status]
             /\ IF t.ok
                THEN /\ last' = Printed("test_connection",
                                        t.printed \o <<Msg("successfully_connected")>>)
                     /\ pc' = Steps[1]
                     /\ UNCHANGED exit_code
                ELSE /\ last' = Printed("test_connection",
                                        t.printed \o <<Msg("unable_to_connect")>>)
                     /\ exit_code' = 1
                     /\ pc' = "exited"
    /\ UNCHANGED <<args, srv, client, listed, firstFailed, config, file>>

\* one `if show_all or args.<kind>: lister.list_<kind>()` whose condition holds
List(kind) ==
    /\ pc = kind
    /\ selected(args, kind)
    /\ \E resp \in Responses(kind, srv) :
         LET r == lister(kind, resp)
         IN  /\ last' = r
             /\ requests' = Append(requests, Get("get_api_data", kind))
             /\ listed' = Append(listed, kind)
             /\ firstFailed' = IF firstFailed = "none" /\ (resp.exc \/ resp.status # 200)
                               THEN kind ELSE firstFailed
             /\ IF r.raised
                THEN pc' = "crashed" /\ exit_code' = 1
                ELSE pc' = NextStep(kind) /\ UNCHANGED exit_code
    /\ UNCHANGED <<args, srv, client, probe, config, file>>

ListAssetTypes == List("categories")
ListModels == List("models")
ListCustomFields == List("fields")
ListStatusLabels == List("statuslabels")
ListCompanies == List("companies")
ListLocations == List("locations")
ListDepartments == List("departments")
ListSuppliers == List("suppliers")
ListManufacturers == List("manufacturers")

\* `if show_all or args.api_endpoints: lister.show_api_endpoints()`
ShowApiEndpoints ==
    /\ pc = "api_endpoints"
    /\ selected(args, "api_endpoints")
    /\ last' = show_api_endpoints
    /\ listed' = Append(listed, "api_endpoints")
    /\ pc' = NextStep("api_endpoints")
    /\ UNCHANGED <<args, srv, client, probe, requests, firstFailed, config, file,
                   exit_code>>

\* an if statement of lines 587-620 whose condition is false
Skip ==
    /\ pc \in KindSet \cup {"api_endpoints", "export"}
    /\ ~selected(args, pc)
    /\ pc' = NextStep(pc)
    /\ UNCHANGED <<args, srv, client, probe, requests, listed, last, firstFailed,
                   config, file, exit_code>>

\* export_config, lines 438-450: the next get_api_data call of the dict display
ExportFetch ==
    /\ pc = "export"
    /\ selected(args, "export")
    /\ Len(config) < Len(Kinds)
    /\ LET kind == Kinds[Len(config) + 1]
       IN  \E resp \in Responses(kind, srv) :
             LET g == get_api_data(kind, resp)
             IN  /\ requests' = Append(requests, Get("export_config", kind))
                 /\ last' = [Printed("export_config", g.printed) EXCEPT
                               !.resp = resp, !.got = g, !.raised = g.raised]
                 /\ IF g.raised
                    THEN pc' = "crashed" /\ exit_code' = 1 /\ UNCHANGED config
                    ELSE config' = Append(config, g.data) /\ UNCHANGED <<pc, exit_code>>
    /\ UNCHANGED <<args, srv, client, probe, listed, firstFailed, file>>

\* export_config, lines 452-457: open the file and json.dump the dict; any
\* exception is printed and swallowed
ExportWrite ==
    /\ pc = "export"
    /\ selected(args, "export")
    /\ Len(config) = Len(Kinds)
    /\ \E outcome \in {"written", "open_failed", "dump_failed"} :
         /\ file' = CASE outcome = "written" ->
                           [state |-> "written",
                            content |-> json_dump(build_config(client, config))]
                      [] outcome = "open_failed" -> file
                      [] outcome = "dump_failed" -> [state |-> "partial", content |-> <<>>]
         /\ last' = Printed("export_config",
                            <<Msg(IF outcome = "written" THEN "exported_successfully"
                                  ELSE "error_during_export")>>)
    /\ pc' = NextStep("export")
    /\ UNCHANGED <<args, srv, client, probe, requests, listed, firstFailed, config,
                   exit_code>>

\* line 622, and the normal end of the process
Finish ==
    /\ pc = "finish"
    /\ last' = Printed("main", <<Msg("analysis_completed")>>)
    /\ exit_code' = 0
    /\ pc' = "done"
    /\ UNCHANGED <<args, srv, client, probe, requests, listed, firstFailed, config, file>>

----------------------------------------------------------------------------
(* Specifications *)

Servers ==
    { <<"h", "t", "t", "p", ":", "/", "/", "h", "/">>,
      <<"h", "t", "t", "p", "s", ":", "/", "/", "h">>,
      <<"f", "t", "p", ":", "/", "/", "h">>,
      <<"h", "t", "t", "p", ":", "h">>,
      <<"h">> }

Statuses == {200, 401, 403, 404, 500}

SelectionFlags == KindSet \cup {"all", "api_endpoints"}

\* the command lines with at most n selection flags
CommandLines(servers, n, exports) ==
    {Namespace(s, "all" \in S, S \cap KindSet, "api_endpoints" \in S, x) :
        s \in servers, S \in {T \in SUBSET SelectionFlags : Cardinality(T) <= n},
        x \in exports}

Start(argset, server) ==
    /\ args \in argset
    /\ srv = server
    /\ pc = "start"
    /\ client = NoClient
    /\ probe = NoProbe
    /\ requests = <<>>
    /\ listed = <<>>
    /\ last = Printed("main", <<>>)
    /\ firstFailed = "none"
    /\ config = <<>>
    /\ file = NoFile
    /\ exit_code = NoExit

\* whole runs without --export: any server argument, up to MaxFlags selection
\* flags; the server answers with any status or a network error, and on 200
\* with any body of up to MainRows rows
Init ==
    Start(CommandLines(Servers, MaxFlags, {FALSE}),
          [exc |-> TRUE, statuses |-> Statuses,
           bodies |-> {"undecodable", "empty", "norows", "rows"}, maxRows |-> MainRows, nested |-> NestedVals, texts |-> {StdText}])

Listing ==
    \/ ValidateUrl
    \/ TestConnection
    \/ ListAssetTypes
    \/ ListModels
    \/ ListCustomFields
    \/ ListStatusLabels
    \/ ListCompanies
    \/ ListLocations
    \/ ListDepartments
    \/ ListSuppliers
    \/ ListManufacturers
    \/ ShowApiEndpoints
    \/ Skip
    \/ Finish

Spec == Init /\ [][Listing]_vars

\* runs with exactly one selection flag other than --all, so that one listing
\* runs, with responses of up to MaxRows rows
InitRows ==
    Start({a \in CommandLines(Servers, 1, {FALSE}) : ~show_all(a)},
          [exc |-> TRUE, statuses |-> Statuses,
           bodies |-> {"undecodable", "empty", "norows", "rows"}, maxRows |-> MaxRows, nested |-> NestedVals, texts |-> {StdText}])

SpecRows == InitRows /\ [][Listing]_vars

\* runs with --export
InitExport ==
    Start(CommandLines(Servers, 1, {TRUE}),
          [exc |-> TRUE, statuses |-> {200, 401},
           bodies |-> {"rows"}, maxRows |-> 0, nested |-> NestedVals, texts |-> {StdText}])

Next == Listing \/ ExportFetch \/ ExportWrite

\* runs that list locations or manufacturers (or only the endpoint table),
\* answered 200 with at most one row whose address or url is any value of up
\* to MaxLen characters
InitText ==
    Start({a \in CommandLines(Servers, 1, {FALSE}) :
              a.locations \/ a.manufacturers \/ a.api_endpoints},
          [exc |-> FALSE, statuses |-> {200}, bodies |-> {"rows"}, maxRows |-> 1,
           nested |-> NestedVals, texts |-> TextValues(MaxLen)])

SpecText == InitText /\ [][Listing]_vars

\* runs with --export that list the models or only the endpoint table, every
\* request answered 200 with no row, a row of named objects, or a row whose
\* nested objects are null
InitSequence ==
    Start({a \in CommandLines(Servers, 1, {TRUE}) : a.models \/ a.api_endpoints},
          [exc |-> FALSE, statuses |-> {200}, bodies |-> {"rows"}, maxRows |-> 1,
           nested |-> {"null"}, texts |-> {StdText}])

SpecSequence == InitSequence /\ [][Next]_vars

SpecExport == InitExport /\ [][Next]_vars

----------------------------------------------------------------------------
(* Vocabulary of the properties *)

\* the server argument carries one of the two accepted schemes
HasHttpScheme(server) ==
    \/ (Len(server) >= 7 /\ SubSeq(server, 1, 7) = HttpPrefix)
    \/ (Len(server) >= 8 /\ SubSeq(server, 1, 8) = HttpsPrefix)

ProbePassed == probe.issued /\ ~probe.exc /\ probe.status = 200

ProbeFailed == probe.issued /\ (probe.exc \/ probe.status # 200)

\* the fetch got a network exception or a status other than 200
FetchFailed(resp) == resp.exc \/ resp.status # 200

Terminated == pc \in {"done", "exited", "crashed"}

\* the most recent operation was the lister of a resource kind
Listed == last.kind \in KindSet

----------------------------------------------------------------------------
\* C1: when the connectivity probe ends in a network exception or a status
\* other than 200, the process has exited with code 1 and the probe is the
\* only request of the run (no get_api_data call, no listing); and any
\* request other than the probe comes after a probe that returned 200.
C1_ProbeGate ==
    /\ ProbeFailed =>
          /\ pc = "exited"
          /\ exit_code = 1
          /\ requests = <<Get("test_connection", "statuslabels")>>
          /\ listed = <<>>
    /\ (\E i \in 1..Len(requests) : requests[i].by # "test_connection") =>
          /\ ProbePassed
          /\ requests[1] = Get("test_connection", "statuslabels")

\* the probe was answered 500 and the run is over
C1_Witness == ProbeFailed /\ ~probe.exc /\ probe.status = 500 /\ pc = "exited"

----------------------------------------------------------------------------
\* C2: for a --server value that starts with neither http:// nor https://,
\* the run exits with code 1 from its first step: the client is never
\* constructed and no request of any kind (probe or resource GET) is made.
C2_InvalidScheme ==
    ~HasHttpScheme(args.server) =>
        /\ pc \in {"start", "exited"}
        /\ pc = "exited" => exit_code = 1
        /\ client = NoClient
        /\ ~probe.issued
        /\ requests = <<>>
        /\ listed = <<>>

\* the run given ftp://h has exited
C2_Witness ==
    /\ args.server = <<"f", "t", "p", ":", "/", "/", "h">>
    /\ pc = "exited"
    /\ exit_code = 1

----------------------------------------------------------------------------
\* the selected resource kinds that main() reaches after kind k
SelectedAfter(k) ==
    {Kinds[j] : j \in {i \in 1..Len(Kinds) :
                          i > IndexOf(Kinds, k) /\ selected(args, Kinds[i])}}

\* C3: once the probe has passed, a resource kind K whose fetch ends in 401,
\* 403, 404, another status than 200 or a network exception prints a message
\* and no table, and every selected kind after K in the listing order is still
\* fetched by the end of the run.  (firstFailed is the first such K; the kinds
\* after a later K are among the kinds after the first.)
C3_SkipAndContinue ==
    /\ (Listed /\ FetchFailed(last.resp)) =>
          /\ ~last.rendered
          /\ ~last.raised
          /\ Len(last.printed) >= 2
    /\ (Terminated /\ firstFailed # "none") =>
          \A k \in SelectedAfter(firstFailed) : k \in Range(listed)

\* get_api_data made a request and returned: its request, its result
Fetched == last.kind \in KindSet \cup {"export_config"} /\ last.resp # NoResponse

\* the response is a 200 whose body decodes as JSON
Decoded(resp) == ~resp.exc /\ resp.status = 200 /\ resp.decodes

\* C4 as stated: get_api_data never raises; on status 200 it returns the
\* parsed body (and logs nothing); on 404, 401, 403, any other status or a
\* network exception it returns None with exactly one logged message.
C4_AsStated ==
    Fetched =>
        /\ ~last.got.raised
        /\ (~last.resp.exc /\ last.resp.status = 200) =>
              /\ last.resp.decodes
              /\ last.got.data = last.resp.json
              /\ last.got.printed = <<>>
        /\ FetchFailed(last.resp) =>
              /\ last.got.data = None
              /\ Len(last.got.printed) = 1

\* C4 (amended): get_api_data never raises; it returns the parsed body and
\* logs nothing when the status is 200 and the body decodes as JSON; it
\* returns None with exactly one logged message when the status is 404, 401,
\* 403 or any other status, when the request raises a network exception, and
\* when the body of a 200 answer does not decode.
C4_NeverRaises ==
    Fetched =>
        /\ ~last.got.raised
        /\ Decoded(last.resp) =>
              /\ last.got.data = last.resp.json
              /\ last.got.printed = <<>>
        /\ ~Decoded(last.resp) =>
              /\ last.got.data = None
              /\ Len(last.got.printed) = 1

\* a 403 was turned into None and one message
C4_Witness ==
    /\ Fetched
    /\ ~last.resp.exc /\ last.resp.status = 403
    /\ last.got.data = None
    /\ last.got.printed = <<Msg("access_denied_403")>>

----------------------------------------------------------------------------
\* the display cap of a resource kind, 0 for the kinds listed without one
CapOf(kind) ==
    CASE kind = "models" -> ModelsCap
      [] kind \in {"companies", "locations", "departments", "suppliers",
                   "manufacturers"} -> ListCap
      [] OTHER -> 0

\* the rows of the body the lister fetched (none when the key is missing)
FetchedRows == IF "rows" \in last.resp.json.keys THEN last.resp.json.rows ELSE <<>>

\* the overflow notices the lister printed
Overflow == {i \in 1..Len(last.printed) : last.printed[i].msg = "and_n_other"}

\* C5: for a capped kind (models: 20; companies, locations, departments,
\* suppliers, manufacturers: 15) that fetched R rows, min(R, C) rows are added
\* to the table and the overflow notice is printed exactly when R > C, with the
\* number R - C; for the other kinds R rows are added and no notice is printed.
C5_DisplayCap ==
    (Listed /\ Decoded(last.resp)) =>
        LET R == Len(FetchedRows)
            C == CapOf(last.kind)
        IN  IF C > 0
            THEN /\ Len(last.table) = Min(R, C)
                 /\ (Overflow # {}) <=> (R > C)
                 /\ \A i \in Overflow : last.printed[i].n = R - C
            ELSE /\ Len(last.table) = R
                 /\ Overflow = {}

\* C6: for a record whose nested parent, company, manager, category or
\* manufacturer is present with the value null, list_locations,
\* list_departments and list_models do not raise and render the derived name
\* column of that record as the empty string.
C6_NullNested ==
    (Listed /\ Decoded(last.resp) /\ NestedFields(last.kind) # {}) =>
        /\ ~last.raised
        /\ \A k \in 1..Min(Len(FetchedRows), Len(last.table)) :
              \A f \in NestedFields(last.kind) :
                  FetchedRows[k][f] = "null" => last.table[k][f] = ""

\* C7: for every resource kind, a 200 answer whose JSON object has no "rows"
\* member (the empty object included) is listed as an answer with an empty
\* "rows" is: no exception, no "unable to retrieve" notice, a table of zero
\* rows, the same console output.
C7_RowsAbsent ==
    (Listed /\ Decoded(last.resp) /\ "rows" \notin last.resp.json.keys) =>
        /\ ~last.raised
        /\ last.rendered
        /\ last.table = <<>>
        /\ last.printed = lister(last.kind, Http(200, TRUE, Dict({"rows"}, <<>>))).printed

----------------------------------------------------------------------------
JsonNull == [type |-> "null", keys |-> {}, rows |-> <<>>, chars |-> <<>>]

\* what the file holds for a resource kind, given the answer to its fetch:
\* the raw response object, or null when the fetch failed
Exported(value) ==
    IF value = None THEN JsonNull
    ELSE [type |-> "object", keys |-> value.keys, rows |-> value.rows, chars |-> <<>>]

\* every value export_config keeps is the parsed body of the answer just
\* received, or None when that fetch failed
KeepsRawResponse ==
    (pc = "export" /\ last.kind = "export_config" /\ last.resp # NoResponse) =>
        /\ Len(config) >= 1
        /\ config[Len(config)] = IF Decoded(last.resp) THEN last.resp.json ELSE None

\* the members of the written file for the nine kinds, and that the write is
\* attempted after nine fetches whatever they returned
WritesNineKinds ==
    /\ file.state = "written" =>
          \A i \in 1..Len(Kinds) : file.content[Kinds[i]] = Exported(config[i])
    /\ (args.export /\ pc \in {"finish", "done"}) => Len(config) = Len(Kinds)

----------------------------------------------------------------------------
\* the listing operations in the order of main()
AllOps == Kinds \o <<"api_endpoints">>

NoSelectionFlag(a) == ~a.all /\ \A i \in 1..Len(AllOps) : ~flag(a, AllOps[i])

\* the flagged operations, in the order of main()
FlaggedOps(a) ==
    LET Flagged(op) == flag(a, op) IN SelectSeq(AllOps, Flagged)

IsPrefix(p, q) == Len(p) <= Len(q) /\ SubSeq(q, 1, Len(p)) = p

\* C9: a run with no selection flag and a run with --all perform the same
\* listing operations in the same order (all nine kinds, then the endpoint
\* table) and end with the same exit code for the same answers; a run with
\* at least one selection flag and without --all lists exactly the flagged
\* kinds.
C9_SelectionFlags ==
    /\ (ProbePassed /\ (args.all \/ NoSelectionFlag(args))) =>
          /\ IsPrefix(listed, AllOps)
          /\ pc = "done" => (listed = AllOps /\ exit_code = 0)
          /\ pc = "crashed" => (last.raised /\ exit_code = 1)
    /\ (ProbePassed /\ Terminated /\ ~args.all /\ ~NoSelectionFlag(args)) =>
          listed = FlaggedOps(args)

\* C10: with a valid URL scheme and a probe answered 200, the run ends
\* normally with exit code 0 whatever the selection flags, whatever any
\* resource fetch returned (401, 403, 404, another status, a network
\* exception, any 200 body) and whether or not the export file could be
\* written.
C10_ExitZero ==
    (HasHttpScheme(args.server) /\ ProbePassed) =>
        /\ pc # "crashed"
        /\ exit_code \in {NoExit, 0}
        /\ Terminated => (pc = "done" /\ exit_code = 0)

----------------------------------------------------------------------------
\* the rows of the most recent listing that have a table row
ShownRows == 1..Min(Len(FetchedRows), Len(last.table))

\* C11: the address column of list_locations and the url column of
\* list_manufacturers show the empty string for a null or missing value, the
\* value unchanged when it has at most 30 characters, and its first 30
\* characters followed by "..." when it has more; a 30-character value is
\* untouched and a 31-character value becomes 30 characters plus the marker.
C11_Truncation ==
    (Listed /\ Decoded(last.resp) /\ TextFields(last.kind) # {}) =>
        /\ ~last.raised
        /\ Len(last.table) = Len(FetchedRows)
        /\ \A k \in ShownRows : \A f \in TextFields(last.kind) :
              LET v == FetchedRows[k][f]
                  shown == last.table[k][f]
              IN  /\ v.state \in {"absent", "null"} => shown = <<>>
                  /\ (v.state = "str" /\ Len(v.chars) <= 30) => shown = v.chars
                  /\ (v.state = "str" /\ Len(v.chars) > 30) =>
                        /\ Len(shown) = 33
                        /\ \A i \in 1..30 : shown[i] = v.chars[i]
                        /\ \A i \in 31..33 : shown[i] = "."

\* a manufacturer whose url has 31 characters, the last one marked, is shown
\* with 30 characters and the marker
C11_Witness ==
    /\ Listed /\ last.kind = "manufacturers" /\ last.rendered
    /\ Len(FetchedRows) = 1
    /\ FetchedRows[1]["url"] = Text(Marked(31, 31))
    /\ last.table[1]["url"] = Marked(30, 0) \o Ellipsis

----------------------------------------------------------------------------
\* the kinds a command line selects for listing, in the order of main()
SelectedKinds(a) ==
    LET Chosen(k) == a.all \/ NoSelectionFlag(a) \/ flag(a, k)
    IN  SelectSeq(Kinds, Chosen)

\* the requests the run of a command line is to make once the probe passed
ExpectedRequests(a) ==
    <<Get("test_connection", "statuslabels")>>
    \o [i \in 1..Len(SelectedKinds(a)) |-> Get("get_api_data", SelectedKinds(a)[i])]
    \o (IF a.export THEN [i \in 1..Len(Kinds) |-> Get("export_config", Kinds[i])]
        ELSE <<>>)

\* C12: in every run that passes the probe the requests are, in this order,
\* the probe, one GET per selected kind in the fixed order, and then, exactly
\* when --export is given, nine further GETs in that same order, whatever the
\* listing fetches returned; the run ends having made
\* 1 + (number of selected kinds) + (9 if export else 0) requests.
C12_RequestSequence ==
    ProbePassed =>
        /\ IsPrefix(requests, ExpectedRequests(args))
        /\ Terminated =>
              /\ requests = ExpectedRequests(args)
              /\ Len(requests) = 1 + Len(SelectedKinds(args))
                                   + (IF args.export THEN 9 ELSE 0)

====
